---- MODULE Spec2Model ----
(***************************************************************************)
(* Model of load-test/demo_load_tester.py: the MetricsCollector, the       *)
(* semaphore-gated LoadTester.api_call, the eight phases of LoadTester.run *)
(* and the verdict of LoadTester.print_results.                            *)
(*                                                                         *)
(* The program is a single asyncio event loop: the code between two awaits *)
(* runs atomically.  One api_call is three steps: Acquire (the permit is   *)
(* taken and the transport call starts), Complete (the transport call ends *)
(* and the outcome is recorded) and Release (the permit is returned and    *)
(* the caller continues up to its next await).                             *)
(*                                                                         *)
(* The lists of the collector (requests, setup_requests, runtime_requests, *)
(* EndpointStats.latencies) are only ever appended to and read through     *)
(* len, sum, sorted and statistics.median, none of which sees the order of *)
(* the elements: the model keeps each list as the bag of its elements.     *)
(***************************************************************************)
EXTENDS Integers, Sequences, FiniteSets, Bags, TLC

\* ------------------------------------------------------------------ bounds
MaxUsers == 2          \* config users.regular + users.celebrities is at most MaxUsers
MaxConcurrent == 2     \* config max_concurrent_requests ranges over 1..MaxConcurrent
MaxReads == 1          \* config timeline_reads_per_user ranges over 0..MaxReads
MaxFaults == 1         \* calls of a run not answered nominally (a listing that
                       \* pages on counts once)
TweetsPerUser == 1     \* config activity.tweets_per_user
ErrorRateLimit == 5    \* config thresholds.max_error_rate_percent of a run
P95Limit == 2          \* config thresholds.max_p95_latency_ms of a run
FollowsPerUser == 1    \* config activity.follows_per_regular_user
CelebThreshold == 1    \* followers per celebrity (5000 in the code, scaled down)
MaxPages == 2          \* non-empty cursors the server hands out for one listing
WaitMs == 1            \* the time a call spends suspended until a permit is free
MaxSegments == 3       \* segments of an endpoint given to the normalisation alone
MaxRecords == 3        \* metrics given to the collector alone

\* ------------------------------------------------------- program constants
DefaultUnfollows == 1        \* .get("unfollows_per_user", 1)
MixedRounds == 2             \* range(2) in phase_mixed_activity
FallbackMinRate == 95        \* success_rate >= 95 in the no-rich path

None == "None"

\* uuid.uuid4(): the n-th identifier drawn by the run
UUIDStr == <<"u1", "u2", "u3", "u4", "u5", "u6", "u7", "u8", "u9", "u10",
             "u11", "u12", "u13", "u14", "u15", "u16", "u17", "u18", "u19", "u20">>
UUIDs == {UUIDStr[i] : i \in 1..Len(UUIDStr)}

\* ---------------------------------------------------------------- helpers
Min(a, b) == IF a <= b THEN a ELSE b

RECURSIVE Insert(_, _)
Insert(x, s) ==
    IF s = <<>> THEN <<x>>
    ELSE IF x <= Head(s) THEN <<x>> \o s
    ELSE <<Head(s)>> \o Insert(x, Tail(s))

\* sorted(list)
RECURSIVE sorted(_)
sorted(s) == IF s = <<>> THEN <<>> ELSE Insert(Head(s), sorted(Tail(s)))

AddOnce(list, x) == IF x \in DOMAIN list THEN list ELSE list (+) SetToBag({x})

\* list.append(x) on a list kept as a bag
Add(list, x) == list (+) SetToBag({x})

\* the elements of a list kept as a bag, in some order
RECURSIVE ListOf(_)
ListOf(list) ==
    IF DOMAIN list = {} THEN <<>>
    ELSE LET x == CHOOSE y \in DOMAIN list : TRUE
         IN [i \in 1..list[x] |-> x] \o ListOf([y \in DOMAIN list \ {x} |-> list[y]])

RECURSIVE CountSuccess(_)
CountSuccess(s) ==
    IF s = <<>> THEN 0
    ELSE (IF Head(s).success THEN 1 ELSE 0) + CountSuccess(Tail(s))

\* str(status) for the statuses the model uses
StatusStr(n) ==
    CASE n = 200 -> "200" [] n = 201 -> "201" [] n = 204 -> "204"
      [] n = 404 -> "404" [] n = 409 -> "409" [] n = 500 -> "500"

\* ------------------------------------------------------ MetricsCollector
\* RequestMetrics
RequestMetrics(endpoint, method, status, latency_ms, success, error) ==
    [endpoint |-> endpoint, method |-> method, status |-> status,
     latency_ms |-> latency_ms, success |-> success, error |-> error]

\* EndpointStats() as the defaultdict creates it
EndpointStats ==
    [total |-> 0, success |-> 0, failed |-> 0, latencies |-> EmptyBag, errors |-> <<>>]

\* MetricsCollector.__init__
NewMetrics ==
    [requests |-> EmptyBag, by_endpoint |-> <<>>, phase |-> "setup",
     setup_requests |-> EmptyBag, runtime_requests |-> EmptyBag]

set_phase(m, phase) == [m EXCEPT !.phase = phase]

\* f"{metric.method} {metric.endpoint}"
BucketKey(metric) == <<metric.method, metric.endpoint>>

ErrKeyMessage(metric) ==
    IF metric.status # 0 THEN StatusStr(metric.status) ELSE metric.error

\* f"{metric.status}" if metric.status else metric.error or "unknown"
ErrKey(metric) ==
    IF metric.status # 0 THEN StatusStr(metric.status)
    ELSE IF metric.error # None /\ metric.error # "" THEN metric.error
    ELSE "unknown"

BumpTwice(f, k) == IF k \in DOMAIN f THEN [f EXCEPT ![k] = @ + 2] ELSE (k :> 2) @@ f

\* errors[key] += 1 on a defaultdict(int)
Bump(f, k) == IF k \in DOMAIN f THEN [f EXCEPT ![k] = @ + 1] ELSE (k :> 1) @@ f

StatsAfterNoFailed(stats, metric) ==
    [total |-> stats.total + 1,
     latencies |-> Add(stats.latencies, metric.latency_ms),
     success |-> IF metric.success THEN stats.success + 1 ELSE stats.success,
     failed |-> IF metric.success \/ metric.status = 0 THEN stats.failed
                ELSE stats.failed + 1,
     errors |-> IF metric.success THEN stats.errors
                ELSE Bump(stats.errors, ErrKey(metric))]

StatsAfter(stats, metric) ==
    [total |-> stats.total + 1,
     latencies |-> Add(stats.latencies, metric.latency_ms),
     success |-> IF metric.success THEN stats.success + 1 ELSE stats.success,
     failed |-> IF metric.success THEN stats.failed ELSE stats.failed + 1,
     errors |-> IF metric.success THEN stats.errors
                ELSE Bump(stats.errors, ErrKey(metric))]

recordLost(m, metric) ==
    [requests |-> Add(m.requests, metric),
     phase |-> m.phase,
     setup_requests |-> IF m.phase = "setup" THEN Add(m.setup_requests, metric)
                        ELSE m.setup_requests,
     runtime_requests |-> IF m.phase = "setup" THEN m.runtime_requests
                          ELSE Add(m.runtime_requests, metric),
     by_endpoint |-> (BucketKey(metric) :> StatsAfter(EndpointStats, metric))
                     @@ m.by_endpoint]

recordBoth(m, metric) ==
    LET key == BucketKey(metric)
        stats == IF key \in DOMAIN m.by_endpoint THEN m.by_endpoint[key]
                 ELSE EndpointStats
    IN [requests |-> Add(m.requests, metric),
        phase |-> m.phase,
        setup_requests |-> Add(m.setup_requests, metric),
        runtime_requests |-> IF m.phase = "setup" THEN m.runtime_requests
                             ELSE Add(m.runtime_requests, metric),
        by_endpoint |-> (key :> StatsAfter(stats, metric)) @@ m.by_endpoint]

\* MetricsCollector.record
record(m, metric) ==
    LET key == BucketKey(metric)
        stats == IF key \in DOMAIN m.by_endpoint THEN m.by_endpoint[key]
                 ELSE EndpointStats
    IN [requests |-> Add(m.requests, metric),
        phase |-> m.phase,
        setup_requests |-> IF m.phase = "setup" THEN Add(m.setup_requests, metric)
                           ELSE m.setup_requests,
        runtime_requests |-> IF m.phase = "setup" THEN m.runtime_requests
                             ELSE Add(m.runtime_requests, metric),
        by_endpoint |-> (key :> StatsAfter(stats, metric)) @@ m.by_endpoint]

Int95Low(n) == (n * 5) \div 100

\* int(n * 0.95): equal to floor(95 n / 100) for every n below 5000
Int95(n) == (n * 95) \div 100
Int99(n) == (n * 99) \div 100

Latencies(requests) == [i \in 1..Len(requests) |-> requests[i].latency_ms]

\* MetricsCollector.total_requests, total_success, total_failed
total_requests(m) == BagCardinality(m.requests)

total_success(m) ==
    BagCardinality([r \in {x \in DOMAIN m.requests : x.success} |-> m.requests[r]])

total_failed(m) ==
    BagCardinality([r \in {x \in DOMAIN m.requests : ~x.success} |-> m.requests[r]])

\* a report value that need not be whole: num / den
Fraction(num, den) == [num |-> num, den |-> den]

\* statistics.median of a non-empty list, given sorted: the middle element, or
\* the mean of the two middle elements when the length is even
median(s) ==
    LET n == Len(s)
    IN IF n % 2 = 1 THEN Fraction(s[(n \div 2) + 1], 1)
       ELSE Fraction(s[n \div 2] + s[(n \div 2) + 1], 2)

\* sorted_lat[min(idx, len(sorted_lat) - 1)]
Clamped(s, idx) == s[Min(idx, Len(s) - 1) + 1]

\* EndpointStats.p50, p95, p99
p50(stats) ==
    IF stats.latencies = EmptyBag THEN Fraction(0, 1)
    ELSE median(sorted(ListOf(stats.latencies)))

p95(stats) ==
    IF stats.latencies = EmptyBag THEN 0
    ELSE LET sorted_lat == sorted(ListOf(stats.latencies))
         IN Clamped(sorted_lat, Int95(Len(sorted_lat)))

p99(stats) ==
    IF stats.latencies = EmptyBag THEN 0
    ELSE LET sorted_lat == sorted(ListOf(stats.latencies))
         IN Clamped(sorted_lat, Int99(Len(sorted_lat)))

\* MetricsCollector.all_latencies, overall_p50, overall_p95, overall_p99
all_latencies(m) == Latencies(ListOf(m.requests))

overall_p50(m) ==
    LET lats == all_latencies(m)
    IN IF lats = <<>> THEN Fraction(0, 1) ELSE median(sorted(lats))

overall_p95(m) ==
    LET lats == sorted(all_latencies(m))
    IN IF lats = <<>> THEN 0 ELSE Clamped(lats, Int95(Len(lats)))

overall_p99(m) ==
    LET lats == sorted(all_latencies(m))
    IN IF lats = <<>> THEN 0 ELSE Clamped(lats, Int99(Len(lats)))

\* get_phase_stats: the empty branch returns a dict without "success_rate".
\* success_rate is the exact fraction success_rate_num / total * 100.
get_phase_stats(m, phase) ==
    LET requests == ListOf(IF phase = "setup" THEN m.setup_requests
                           ELSE m.runtime_requests)
        latencies == sorted(Latencies(requests))
        success == CountSuccess(requests)
        n == Len(requests)
    IN IF n = 0
       THEN [total |-> 0, success |-> 0, failed |-> 0, p50 |-> 0, p95 |-> 0, p99 |-> 0]
       ELSE [total |-> n, success |-> success, failed |-> n - success,
             success_rate |-> [num |-> success * 100, den |-> n],
             p50 |-> latencies[(n \div 2) + 1],
             p95 |-> latencies[Int95(n) + 1],
             p99 |-> latencies[Int99(n) + 1]]

\* ------------------------------------------------------------ print_results
RateOk(stats, cfg) ==
    stats.success_rate.num >= (100 - cfg.max_error_rate_percent) * stats.success_rate.den

P95Ok(stats, cfg) == stats.p95 < cfg.max_p95_latency_ms

\* "Error rate X% > T%" and "p95 Xms > Tms": the measured value and the threshold
Reasons(stats, cfg) ==
    (IF RateOk(stats, cfg) THEN <<>>
     ELSE <<[what |-> "error_rate",
             measured |-> [num |-> stats.failed * 100, den |-> stats.total],
             threshold |-> cfg.max_error_rate_percent]>>)
    \o
    (IF P95Ok(stats, cfg) THEN <<>>
     ELSE <<[what |-> "p95",
             measured |-> [num |-> stats.p95, den |-> 1],
             threshold |-> cfg.max_p95_latency_ms]>>)

Raised(where) == [raised |-> TRUE, where |-> where, passed |-> FALSE, reasons |-> <<>>]
Returned(passed, reasons) ==
    [raised |-> FALSE, where |-> None, passed |-> passed, reasons |-> reasons]

PrintResultsRichAnyPhase(m, cfg) ==
    LET setup_stats == get_phase_stats(m, "setup")
        runtime_stats == get_phase_stats(m, "runtime")
    IN IF "success_rate" \notin DOMAIN setup_stats THEN Raised("setup_stats")
       ELSE IF "success_rate" \notin DOMAIN runtime_stats THEN Raised("runtime_stats")
       ELSE Returned(/\ RateOk(runtime_stats, cfg) /\ P95Ok(runtime_stats, cfg)
                     /\ RateOk(setup_stats, cfg) /\ P95Ok(setup_stats, cfg),
                     Reasons(runtime_stats, cfg))

\* print_results with rich (lines 587-699): reads setup_stats['success_rate'] first
PrintResultsRich(m, cfg) ==
    LET setup_stats == get_phase_stats(m, "setup")
        runtime_stats == get_phase_stats(m, "runtime")
    IN IF "success_rate" \notin DOMAIN setup_stats THEN Raised("setup_stats")
       ELSE IF "success_rate" \notin DOMAIN runtime_stats THEN Raised("runtime_stats")
       ELSE Returned(RateOk(runtime_stats, cfg) /\ P95Ok(runtime_stats, cfg),
                     Reasons(runtime_stats, cfg))

\* print_results without rich (lines 700-703): returns a bare bool
PrintResultsPlain(m, cfg) ==
    LET runtime_stats == get_phase_stats(m, "runtime")
    IN IF "success_rate" \notin DOMAIN runtime_stats THEN Raised("runtime_stats")
       ELSE Returned(runtime_stats.success_rate.num
                        >= FallbackMinRate * runtime_stats.success_rate.den,
                     <<>>)

print_results(m, cfg, RICH_AVAILABLE) ==
    IF RICH_AVAILABLE THEN PrintResultsRich(m, cfg) ELSE PrintResultsPlain(m, cfg)

\* ------------------------------------------------------------- API operations
\* the endpoint string: the path segments and, after '?', the query
UserPath(user, tail) == <<"api", "v1", "users", user>> \o tail

Endpoint(call) ==
    CASE call.op = "create_tweet" ->
            [method |-> "POST", path |-> <<"api", "v1", "tweets">>, query |-> <<>>]
      [] call.op = "follow_user" ->
            [method |-> "POST", path |-> UserPath(call.user, <<"follow", call.target>>),
             query |-> <<>>]
      [] call.op = "unfollow_user" ->
            [method |-> "DELETE", path |-> UserPath(call.user, <<"follow", call.target>>),
             query |-> <<>>]
      [] call.op = "paginate_timeline" ->
            [method |-> "GET", path |-> UserPath(call.user, <<"timeline">>),
             query |-> IF call.cursor = None THEN <<"limit">> ELSE <<"limit", "cursor">>]
      [] call.op = "paginate_tweets" ->
            [method |-> "GET", path |-> UserPath(call.user, <<"tweets">>),
             query |-> IF call.cursor = None THEN <<"limit">> ELSE <<"limit", "cursor">>]
      [] call.op = "get_followers" ->
            [method |-> "GET", path |-> UserPath(call.user, <<"followers">>),
             query |-> <<"limit">>]
      [] call.op = "get_following" ->
            [method |-> "GET", path |-> UserPath(call.user, <<"following">>),
             query |-> <<"limit">>]

ExpectedStatusStrict(op) ==
    CASE op = "create_tweet" -> {201}
      [] op = "follow_user" -> {201}
      [] op = "unfollow_user" -> {200, 204, 404}
      [] OTHER -> {200}

\* expected_status of each operation
ExpectedStatus(op) ==
    CASE op = "create_tweet" -> {201}
      [] op = "follow_user" -> {201, 409}
      [] op = "unfollow_user" -> {200, 204, 404}
      [] OTHER -> {200}

IsPaginated(op) == op \in {"paginate_timeline", "paginate_tweets"}

\* A text is a sequence of atoms: "/", a word, the canonical text of a UUID,
\* "urn:uuid:", "{id}". A segment is a text without "/".

\* uuid.UUID(segment) succeeds: the canonical text, also behind "urn:uuid:"
IsUUID(segment) ==
    segment \in {<<u>> : u \in UUIDs} \cup {<<"urn:uuid:", u>> : u \in UUIDs}

\* text.split('/')
RECURSIVE Split(_)
Split(text) ==
    IF \A i \in 1..Len(text) : text[i] # "/" THEN <<text>>
    ELSE LET i == CHOOSE j \in 1..Len(text) :
                     text[j] = "/" /\ \A k \in 1..(j - 1) : text[k] # "/"
         IN <<SubSeq(text, 1, i - 1)>> \o Split(SubSeq(text, i + 1, Len(text)))

\* text.replace(old, new): every occurrence of old, from the left
RECURSIVE Replace(_, _, _)
Replace(text, old, new) ==
    IF Len(text) < Len(old) THEN text
    ELSE IF SubSeq(text, 1, Len(old)) = old
         THEN new \o Replace(SubSeq(text, Len(old) + 1, Len(text)), old, new)
         ELSE <<Head(text)>> \o Replace(Tail(text), old, new)

\* lines 230-236: for each segment of the path that parses as a UUID, that
\* segment's text is replaced by {id} wherever it occurs in the key
Normalize(text) ==
    LET segments == Split(text)
        key[i \in 0..Len(segments)] ==
            IF i = 0 THEN text
            ELSE IF IsUUID(segments[i]) THEN Replace(key[i - 1], segments[i], <<"{id}">>)
            ELSE key[i - 1]
    IN key[Len(segments)]

\* the text "/s1/s2/.../sn"
RECURSIVE Join(_)
Join(segments) ==
    IF segments = <<>> THEN <<>> ELSE <<"/">> \o Head(segments) \o Join(Tail(segments))

\* the paths the operations of the load test build (lines 285-353)
Paths ==
    {<<"api", "v1", "tweets">>}
    \cup {UserPath(user, <<tail>>) :
            user \in UUIDs, tail \in {"timeline", "tweets", "followers", "following"}}
    \cup {UserPath(user, <<"follow", target>>) : user \in UUIDs, target \in UUIDs}

\* endpoint.split('?')[0] normalised, for each of these paths: the segments
\* of the key (the segments of such a path are single atoms, and so are its
\* key's)
EndpointKeys ==
    [path \in Paths |->
        LET key == Split(Normalize(Join([i \in 1..Len(path) |-> <<path[i]>>])))
        IN [i \in 1..Len(path) |-> key[i + 1][1]]]

EndpointKeyWithQuery(endpoint) == EndpointKeys[endpoint.path] \o endpoint.query

EndpointKey(endpoint) == EndpointKeys[endpoint.path]

\* ---------------------------------------------------------------- the state
VARIABLES
    config,               \* self.config
    RICH_AVAILABLE,       \* whether the rich import succeeded
    semaphore,            \* self.semaphore: the free permits
    waiters,              \* self.semaphore: the coroutines waiting, first come first
    metrics,              \* self.metrics
    regular_users, celebrities, celebrity_followers, all_users, follow_graph,
    tasks,                \* the coroutines of the phases, in creation order
    queue,                \* what is left of the loop of a sequential phase (1, 7)
    run_pc,               \* where LoadTester.run stands
    phase_no,             \* the phase run is in (0 before phase 1)
    outcome,              \* what run returned or raised
    faults,               \* the server: responses so far that were not nominal
    completed,            \* observer: api_call completions per bucket key
    exit_status,          \* main: <<>> while the process runs, then <<its exit status>>
    norm_pc,              \* api_call's normalisation alone: "idle", "arg" or "key"
    norm_endpoint,        \* ... the endpoint text it is given
    norm_key              \* ... the endpoint_key it computes

vars == <<config, RICH_AVAILABLE, semaphore, waiters, metrics, regular_users, celebrities,
          celebrity_followers, all_users, follow_graph, tasks, queue, run_pc,
          phase_no, outcome, faults, completed, exit_status,
          norm_pc, norm_endpoint, norm_key>>

users == <<regular_users, celebrities, celebrity_followers, all_users, follow_graph>>
server == <<faults>>
norm == <<norm_pc, norm_endpoint, norm_key>>

\* the config.json of a run; max_concurrent_requests is always set. The runs
\* with MaxUsers regular users are those that read timelines in phase 5.
Configs ==
    {cfg \in [regular : 0..MaxUsers,
              celebrities : 0..MaxUsers,
              tweets_per_user : {TweetsPerUser},
              timeline_reads_per_user : 0..MaxReads,
              follows_per_regular_user : {FollowsPerUser},
              unfollows_per_user : {DefaultUnfollows},
              max_concurrent_requests : 1..MaxConcurrent,
              max_error_rate_percent : {ErrorRateLimit},
              max_p95_latency_ms : {P95Limit}] :
        /\ cfg.regular + cfg.celebrities <= MaxUsers
        /\ cfg.regular = MaxUsers => cfg.timeline_reads_per_user = MaxReads}

\* the payload of a response (resp.json(), or resp.text() when that fails):
\* "page" is a non-empty mapping, with its nextCursor (None: no such key),
\* "empty" a falsy payload, "text" a non-empty string, "list" a non-empty list;
\* "none" stands for a result dict without the key "data"
Payload(kind, nextCursor) == [kind |-> kind, nextCursor |-> nextCursor]
NoData == Payload("none", None)
LastPage == Payload("page", "")

NoOutcome == [raised |-> FALSE, where |-> None, passed |-> FALSE, reasons |-> <<>>]
NoResult == [success |-> FALSE, status |-> 0, data |-> NoData]

Init ==
    /\ config \in Configs
    /\ RICH_AVAILABLE \in BOOLEAN
    /\ RICH_AVAILABLE \/ config.regular + config.celebrities < MaxUsers  \* bound
    /\ semaphore = config.max_concurrent_requests
    /\ waiters = <<>>
    /\ metrics = NewMetrics
    /\ regular_users = <<>>
    /\ celebrities = <<>>
    /\ celebrity_followers = <<>>
    /\ all_users = <<>>
    /\ follow_graph = <<>>
    /\ tasks = <<>>
    /\ queue = <<>>
    /\ run_pc = "health"
    /\ phase_no = 0
    /\ outcome = NoOutcome
    /\ faults = 0
    /\ completed = <<>>
    /\ exit_status = <<>>
    /\ norm_pc = "idle"
    /\ norm_endpoint = <<>>
    /\ norm_key = <<>>

\* ------------------------------------------------------------------- tasks
Call(op, user, target) == [op |-> op, user |-> user, target |-> target]

\* a coroutine that has entered the api_call of its first operation
NewTask(phase, script) ==
    [phase |-> phase, script |-> script, ip |-> 1, pc |-> "waiting",
     cursor |-> None, pages |-> 0, res |-> NoResult,
     calls |-> 1, attempts |-> 0, records |-> 0,
     sent |-> <<>>, got |-> <<>>, waited |-> FALSE, advances |-> 0]

RECURSIVE Flatten(_)
Flatten(ss) == IF ss = <<>> THEN <<>> ELSE Head(ss) \o Flatten(Tail(ss))

Range(s) == {s[i] : i \in 1..Len(s)}

TasksOf(i) == {n \in 1..Len(tasks) : tasks[n].phase = i}
Settled(t) == t.pc \in {"done", "raised"}

\* the number of identifiers uuid.uuid4() has handed out
Drawn == Len(regular_users) + Len(celebrities) + Len(celebrity_followers)

\* the coroutines a step has started, in the order they reach the semaphore
Arrivals == [k \in 1..(Len(tasks') - Len(tasks)) |-> Len(tasks) + k]

PhaseDoneNoGather(i) ==
    /\ run_pc = "phase"
    /\ phase_no = i
    /\ queue = <<>>

\* await asyncio.gather(*tasks) / the sequential loop has returned
PhaseDone(i) ==
    /\ run_pc = "phase"
    /\ phase_no = i
    /\ queue = <<>>
    /\ \A n \in TasksOf(i) : tasks[n].pc = "done"

\* ------------------------------------------------------------ the transport
Statuses == {200, 201, 409, 500}
ErrorMessages == {"", "Connection refused"}   \* str(e); "" is a timeout
HttpError(status) ==
    CASE status = 200 -> "HTTP 200" [] status = 201 -> "HTTP 201"
      [] status = 204 -> "HTTP 204" [] status = 404 -> "HTTP 404"
      [] status = 409 -> "HTTP 409" [] OTHER -> "HTTP 500"

NominalStatus(op) ==
    CASE op \in {"create_tweet", "follow_user"} -> 201 [] OTHER -> 200

\* the statuses the server answers an operation with
StatusesOf(op) == Statuses \cup ExpectedStatus(op)

Response(exc, status, data, latency_ms) ==
    [exc |-> exc, status |-> status, data |-> data, latency_ms |-> latency_ms]

\* the answer of a healthy server: the operation's status and a last page
Nominal(op) == Response(None, NominalStatus(op), LastPage, 1)

\* the cursors of a listing, in the order the server hands them out
CursorStr == <<"a", "b", "c", "d">>
CursorNo(cursor) == IF cursor = None THEN 0 ELSE CHOOSE i \in 1..Len(CursorStr) : CursorStr[i] = cursor

\* a page of a listing that goes on: it names the cursor after the request's
NextPage(call) ==
    IF IsPaginated(call.op) /\ CursorNo(call.cursor) < MaxPages
    THEN {Response(None, 200, Payload("page", CursorStr[CursorNo(call.cursor) + 1]), 1)}
    ELSE {}

\* every other answer: another status, an exception (of the request or of the
\* read of the body), a slow answer, and for a paginated read a mapping with
\* no nextCursor, an empty payload, a text or a list
Faulty(call) ==
    {Response(None, st, LastPage, 1) : st \in StatusesOf(call.op) \ {NominalStatus(call.op)}}
    \cup {Response(e, 0, NoData, 1) : e \in ErrorMessages}
    \cup {Response(None, NominalStatus(call.op), LastPage, 2)}
    \cup (IF IsPaginated(call.op)
          THEN {Response(None, 200, Payload(kind, None), 1) :
                  kind \in {"page", "empty", "text", "list"}}
          ELSE {})

\* the answers the server can give a call: the nominal one, while the run has
\* had fewer than MaxFaults others any other, and the next page of a listing
\* that has begun to page
Answers(call) ==
    {Nominal(call.op)}
    \cup (IF faults < MaxFaults THEN Faulty(call) \cup NextPage(call) ELSE {})
    \cup (IF call.cursor # None THEN NextPage(call) ELSE {})

Counted(call, resp) == resp # Nominal(call.op) /\ ~(call.cursor # None /\ resp \in NextPage(call))

\* ------------------------------------------------------------------ api_call
\* the event loop is alive: run has neither returned nor raised
Running == run_pc \in {"phase", "sleep"}

CallOfFirstPage(t) ==
    [op |-> t.script[t.ip].op, user |-> t.script[t.ip].user,
     target |-> t.script[t.ip].target, cursor |-> None, waited |-> t.waited]

\* the call a coroutine is at: its operation, with the cursor of the loop of
\* paginate_* (get_timeline / get_user_tweets, lines 303-313)
CallOf(t) ==
    [op |-> t.script[t.ip].op, user |-> t.script[t.ip].user,
     target |-> t.script[t.ip].target, cursor |-> t.cursor, waited |-> t.waited]

\* async with self.semaphore: the coroutine that has waited longest takes a
\* free permit (asyncio.Semaphore serves its waiters first come, first served)
\* and starts self.session.request
AcquireWithoutPermit(n) ==
    /\ tasks[n].pc = "waiting"
    /\ waiters # <<>> /\ n = Head(waiters)

AcquireGuard(n) ==
    /\ tasks[n].pc = "waiting"
    /\ waiters # <<>> /\ n = Head(waiters)
    /\ semaphore > 0

Acquire(n) ==
    /\ n \in 1..Len(tasks)
    /\ Running
    /\ AcquireGuard(n)
    /\ semaphore' = semaphore - 1
    /\ waiters' = Tail(waiters)
    /\ tasks' = [tasks EXCEPT ![n].pc = "inflight", ![n].attempts = @ + 1,
                              ![n].sent = Append(@, CallOf(tasks[n]).cursor)]
    /\ UNCHANGED <<norm, config, RICH_AVAILABLE, metrics, users, queue, run_pc, phase_no,
                   outcome, exit_status, server, completed>>

ElapsedInTransport(call, resp) == resp.latency_ms

\* (time.perf_counter() - start) * 1000, with start taken at line 238, before
\* "async with self.semaphore": the time waited for a permit and the time of
\* the transport call
Elapsed(call, resp) == resp.latency_ms + (IF call.waited THEN WaitMs ELSE 0)

\* lines 253-258 and 261-266: the one RequestMetrics api_call builds
MetricOf(call, resp) ==
    LET endpoint == Endpoint(call)
        success == resp.status \in ExpectedStatus(call.op)
        latency_ms == Elapsed(call, resp)
    IN IF resp.exc = None
       THEN RequestMetrics(EndpointKey(endpoint), endpoint.method, resp.status,
                           latency_ms, success,
                           IF success THEN None ELSE HttpError(resp.status))
       ELSE RequestMetrics(EndpointKey(endpoint), endpoint.method, 0,
                           latency_ms, FALSE, resp.exc)

\* the dict api_call returns
ResultOf(call, resp) ==
    IF resp.exc = None
    THEN [success |-> resp.status \in ExpectedStatus(call.op),
          status |-> resp.status, data |-> resp.data]
    ELSE [success |-> FALSE, status |-> 0, data |-> NoData]

RecordOutcomeTwice(m, call, resp) ==
    IF resp.exc = None THEN record(m, MetricOf(call, resp))
    ELSE record(record(m, MetricOf(call, resp)), MetricOf(call, resp))

\* self.metrics.record(...) as api_call calls it
RecordOutcome(m, call, resp) == record(m, MetricOf(call, resp))

\* the transport call ends (response or exception); the outcome is recorded.
\* The call took time: when no permit is free, every coroutine queued on the
\* semaphore has by now been suspended since its start timestamp.
Complete(n) ==
    /\ n \in 1..Len(tasks)
    /\ Running
    /\ tasks[n].pc = "inflight"
    /\ LET call == CallOf(tasks[n])
           key == <<Endpoint(call).method, EndpointKey(Endpoint(call))>>
       IN \E resp \in Answers(call) :
            /\ metrics' = RecordOutcome(metrics, call, resp)
            /\ tasks' = [m \in DOMAIN tasks |->
                           IF m = n
                           THEN [tasks[m] EXCEPT !.pc = "recorded",
                                                 !.res = ResultOf(call, resp),
                                                 !.records = @ + 1,
                                                 !.got = Append(@, resp)]
                           ELSE IF tasks[m].pc = "waiting" /\ semaphore = 0
                                THEN [tasks[m] EXCEPT !.waited = TRUE]
                                ELSE tasks[m]]
            /\ faults' = IF Counted(call, resp) THEN faults + 1 ELSE faults
            /\ completed' = Bump(completed, key)
    /\ UNCHANGED <<norm, config, RICH_AVAILABLE, semaphore, waiters, users, queue, run_pc,
                   phase_no, outcome, exit_status>>

\* the TaskID progress.add_task gave the phase: each Progress numbers its tasks
\* from 0 (phases 1-3 in the first Progress, 4-8 in the second)
TaskID(phase) == IF phase <= 3 THEN phase - 1 ELSE phase - 4

\* "if progress and task: progress.advance(task)" at the end of a unit
Advance(phase) == IF RICH_AVAILABLE /\ TaskID(phase) # 0 THEN 1 ELSE 0

\* what the caller of api_call does with the result, up to its next await
\* (paginate_timeline / paginate_tweets lines 321-327, 335-341; otherwise the
\* next operation of the coroutine)
NextOp(t) ==
    IF t.ip = Len(t.script)
    THEN [t EXCEPT !.pc = "done", !.cursor = None, !.res = NoResult,
                   !.sent = <<>>, !.got = <<>>, !.waited = FALSE,
                   !.advances = @ + Advance(t.phase)]
    ELSE [t EXCEPT !.pc = "waiting", !.ip = @ + 1, !.cursor = None,
                   !.res = NoResult, !.calls = @ + 1, !.sent = <<>>, !.got = <<>>,
                   !.waited = FALSE]

\* result["data"].get("nextCursor") on a payload that is no mapping
Raise(t) ==
    [t EXCEPT !.pc = "raised", !.res = NoResult, !.sent = <<>>, !.got = <<>>,
              !.waited = FALSE]

\* the loop of paginate_* goes round with the cursor of the page
NextRequest(t, cursor) ==
    [t EXCEPT !.pc = "waiting", !.cursor = cursor, !.res = NoResult, !.calls = @ + 1,
              !.waited = FALSE]

ContinueRaising(t) ==
    IF ~t.res.success THEN Raise(t)
    ELSE IF ~IsPaginated(t.script[t.ip].op) THEN NextOp(t)
    ELSE LET paged == [t EXCEPT !.pages = @ + 1]
             data == t.res.data
         IN IF data.kind \in {"none", "empty"} THEN NextOp(paged)
            ELSE IF data.kind # "page" THEN Raise(paged)
            ELSE IF data.nextCursor \in {None, ""} THEN NextOp(paged)
            ELSE NextRequest(paged, data.nextCursor)

Continue(t) ==
    IF ~IsPaginated(t.script[t.ip].op) THEN NextOp(t)
    ELSE LET paged == [t EXCEPT !.pages = @ + 1]
             data == t.res.data
         IN IF ~t.res.success \/ data.kind \in {"none", "empty"} THEN NextOp(paged)
            ELSE IF data.kind # "page" THEN Raise(paged)
            ELSE IF data.nextCursor \in {None, ""} THEN NextOp(paged)
            ELSE NextRequest(paged, data.nextCursor)

\* the exit of "async with self.semaphore" and the return of api_call
ReleaseGuard(n) == tasks[n].pc = "recorded"

ReleaseLeak(n) ==
    /\ n \in 1..Len(tasks)
    /\ Running
    /\ tasks[n].pc = "recorded"
    /\ semaphore' = IF tasks[n].res.status = 0 THEN semaphore ELSE semaphore + 1
    /\ tasks' = [tasks EXCEPT ![n] = Continue(tasks[n])]
    /\ waiters' = IF tasks'[n].pc = "waiting" THEN Append(waiters, n) ELSE waiters
    /\ UNCHANGED <<norm, config, RICH_AVAILABLE, metrics, users, queue, run_pc, phase_no,
                   outcome, exit_status, server, completed>>

Release(n) ==
    /\ n \in 1..Len(tasks)
    /\ Running
    /\ ReleaseGuard(n)
    /\ semaphore' = semaphore + 1
    /\ tasks' = [tasks EXCEPT ![n] = Continue(tasks[n])]
    /\ waiters' = IF tasks'[n].pc = "waiting" THEN Append(waiters, n) ELSE waiters
    /\ UNCHANGED <<norm, config, RICH_AVAILABLE, metrics, users, queue, run_pc, phase_no,
                   outcome, exit_status, server, completed>>

\* ----------------------------------------------------------------------- run
CheckHealthRecorded ==
    /\ run_pc = "health"
    /\ \E healthy \in BOOLEAN :
         IF healthy
         THEN /\ run_pc' = "phase"
              /\ outcome' = outcome
              /\ metrics' = metrics
         ELSE /\ run_pc' = "aborted"
              /\ outcome' = Returned(FALSE, <<>>)
              /\ metrics' = record(metrics, RequestMetrics(<<"actuator", "health">>, "GET",
                                                         0, 1, FALSE, ""))
    /\ UNCHANGED <<norm, config, RICH_AVAILABLE, semaphore, waiters, users, tasks, queue,
                   phase_no, server, completed, exit_status>>

\* check_health, lines 716-722: a failed probe makes run return False
CheckHealth ==
    /\ run_pc = "health"
    /\ \E healthy \in BOOLEAN :
         IF healthy
         THEN /\ run_pc' = "phase"
              /\ outcome' = outcome
         ELSE /\ run_pc' = "aborted"
              /\ outcome' = Returned(FALSE, <<>>)
    /\ UNCHANGED <<norm, config, RICH_AVAILABLE, semaphore, waiters, metrics, users, tasks, queue,
                   phase_no, server, completed, exit_status>>

\* set_phase("setup") and the start of phase 1: the loop over the users to create
phase_create_users ==
    /\ PhaseDone(0)
    /\ metrics' = set_phase(metrics, "setup")
    /\ phase_no' = 1
    /\ queue' = [i \in 1..config.regular |-> "regular"]
                \o [i \in 1..config.celebrities |-> "celebrity"]
    /\ UNCHANGED <<norm, config, RICH_AVAILABLE, semaphore, waiters, users, tasks, run_pc, outcome, exit_status,
                   server, completed>>

\* one turn of the loops of phase_create_users: the previous create_tweet has
\* returned; a new user is drawn and its first tweet awaited
CreateNextUser ==
    /\ run_pc = "phase"
    /\ phase_no = 1
    /\ queue # <<>>
    /\ \A n \in TasksOf(1) : tasks[n].pc = "done"
    /\ LET user_id == UUIDStr[Drawn + 1]
       IN /\ regular_users' = IF Head(queue) = "regular"
                              THEN Append(regular_users, user_id) ELSE regular_users
          /\ celebrities' = IF Head(queue) = "celebrity"
                            THEN Append(celebrities, user_id) ELSE celebrities
          /\ tasks' = Append(tasks, NewTask(1, <<Call("create_tweet", user_id, None)>>))
    /\ queue' = Tail(queue)
    /\ waiters' = waiters \o Arrivals
    /\ UNCHANGED <<norm, config, RICH_AVAILABLE, semaphore, metrics, celebrity_followers,
                   all_users, follow_graph, run_pc, phase_no, outcome, exit_status, server,
                   completed>>

\* the end of phase 1 (all_users) and phase 2: one follow per celebrity and
\* follower, all handed to asyncio.gather
phase_build_celebrity_followers ==
    /\ PhaseDone(1)
    /\ all_users' = regular_users \o celebrities
    /\ LET n == Len(celebrities) * CelebThreshold
           follower(k) == UUIDStr[Drawn + k]
           celeb(k) == celebrities[((k - 1) \div CelebThreshold) + 1]
       IN /\ celebrity_followers' = celebrity_followers \o [k \in 1..n |-> follower(k)]
          /\ tasks' = tasks \o [k \in 1..n |->
                         NewTask(2, <<Call("follow_user", follower(k), celeb(k))>>)]
    /\ phase_no' = 2
    /\ waiters' = waiters \o Arrivals
    /\ UNCHANGED <<norm, config, RICH_AVAILABLE, semaphore, metrics, regular_users,
                   celebrities, follow_graph, queue, run_pc, outcome, exit_status, server,
                   completed>>

\* random.sample(others, k): the k-element sequences without repetition
Samples(others, k) ==
    {s \in [1..k -> others] : \A i, j \in 1..k : i # j => s[i] # s[j]}

\* phase 3: each regular user follows a sample of the others and every celebrity
FollowGraphs ==
    LET regs == Range(regular_users)
        k(u) == Min(config.follows_per_regular_user, Cardinality(regs \ {u}))
        choices == UNION {Samples(regs \ {u}, k(u)) : u \in regs}
    IN {[u \in regs |-> smp[u] \o celebrities] :
          smp \in {f \in [regs -> choices] : \A u \in regs : f[u] \in Samples(regs \ {u}, k(u))}}

phase_build_social_graph ==
    /\ PhaseDone(2)
    /\ \E graph \in FollowGraphs :
         /\ follow_graph' = graph
         /\ tasks' = tasks \o Flatten([i \in 1..Len(regular_users) |->
                        LET user == regular_users[i]
                        IN [j \in 1..Len(graph[user]) |->
                              NewTask(3, <<Call("follow_user", user, graph[user][j])>>)]])
    /\ phase_no' = 3
    /\ waiters' = waiters \o Arrivals
    /\ UNCHANGED <<norm, config, RICH_AVAILABLE, semaphore, metrics, regular_users,
                   celebrities, celebrity_followers, all_users, queue, run_pc,
                   outcome, exit_status, server, completed>>

phase_create_tweets_early ==
    /\ run_pc = "phase" /\ phase_no = 3
    /\ metrics' = set_phase(metrics, "runtime")
    /\ tasks' = tasks \o Flatten([round \in 1..config.tweets_per_user |->
                   [i \in 1..Len(all_users) |->
                      NewTask(4, <<Call("create_tweet", all_users[i], None)>>)]])
    /\ phase_no' = 4
    /\ waiters' = waiters \o Arrivals
    /\ UNCHANGED <<norm, config, RICH_AVAILABLE, semaphore, users, queue, run_pc, outcome, exit_status,
                   server, completed>>

\* set_phase("runtime") and phase 4: tweets_per_user rounds over all_users
phase_create_tweets ==
    /\ PhaseDone(3)
    /\ metrics' = set_phase(metrics, "runtime")
    /\ tasks' = tasks \o Flatten([round \in 1..config.tweets_per_user |->
                   [i \in 1..Len(all_users) |->
                      NewTask(4, <<Call("create_tweet", all_users[i], None)>>)]])
    /\ phase_no' = 4
    /\ waiters' = waiters \o Arrivals
    /\ UNCHANGED <<norm, config, RICH_AVAILABLE, semaphore, users, queue, run_pc, outcome, exit_status,
                   server, completed>>

\* await asyncio.sleep(delay_ms / 1000) after phase 4
SettleDelay ==
    /\ PhaseDone(4)
    /\ run_pc' = "sleep"
    /\ UNCHANGED <<norm, config, RICH_AVAILABLE, semaphore, waiters, metrics, users, tasks, queue,
                   phase_no, outcome, exit_status, server, completed>>

\* phase 5: timeline_reads_per_user rounds over the regular users
phase_read_timelines ==
    /\ run_pc = "sleep"
    /\ run_pc' = "phase"
    /\ tasks' = tasks \o Flatten([round \in 1..config.timeline_reads_per_user |->
                   [i \in 1..Len(regular_users) |->
                      NewTask(5, <<Call("paginate_timeline", regular_users[i], None)>>)]])
    /\ phase_no' = 5
    /\ waiters' = waiters \o Arrivals
    /\ UNCHANGED <<norm, config, RICH_AVAILABLE, semaphore, metrics, users, queue, outcome, exit_status,
                   server, completed>>

\* phase 6: every user pages its tweets, then reads followers and following
phase_check_profiles ==
    /\ PhaseDone(5)
    /\ tasks' = tasks \o [i \in 1..Len(all_users) |->
                   NewTask(6, <<Call("paginate_tweets", all_users[i], None),
                                Call("get_followers", all_users[i], None),
                                Call("get_following", all_users[i], None)>>)]
    /\ phase_no' = 6
    /\ waiters' = waiters \o Arrivals
    /\ UNCHANGED <<norm, config, RICH_AVAILABLE, semaphore, metrics, users, queue, run_pc,
                   outcome, exit_status, server, completed>>

\* follow_graph.get(user, []) without the celebrities
RegularFollowing(user) ==
    LET following == IF user \in DOMAIN follow_graph THEN follow_graph[user] ELSE <<>>
        NotCelebrity(f) == f \notin Range(celebrities)
    IN SelectSeq(following, NotCelebrity)

\* phase 7: the loop over the unfollows, awaited one at a time
phase_unfollow_some ==
    /\ PhaseDone(6)
    /\ queue' = Flatten([i \in 1..Len(regular_users) |->
                   LET user == regular_users[i]
                       regular_following == RegularFollowing(user)
                   IN [j \in 1..Min(config.unfollows_per_user, Len(regular_following)) |->
                         Call("unfollow_user", user, regular_following[j])]])
    /\ phase_no' = 7
    /\ UNCHANGED <<norm, config, RICH_AVAILABLE, semaphore, waiters, metrics, users, tasks, run_pc,
                   outcome, exit_status, server, completed>>

\* one turn of the loop of phase_unfollow_some
UnfollowNext ==
    /\ run_pc = "phase"
    /\ phase_no = 7
    /\ queue # <<>>
    /\ \A n \in TasksOf(7) : tasks[n].pc = "done"
    /\ tasks' = Append(tasks, NewTask(7, <<Head(queue)>>))
    /\ queue' = Tail(queue)
    /\ waiters' = waiters \o Arrivals
    /\ UNCHANGED <<norm, config, RICH_AVAILABLE, semaphore, metrics, users, run_pc, phase_no,
                   outcome, exit_status, server, completed>>

\* mixed_user_activity: a tweet, a follow of someone not yet followed (if there
\* is one, picked by random.choice), a paged read of the timeline
MixedScripts(user) ==
    LET following == IF user \in DOMAIN follow_graph THEN Range(follow_graph[user]) ELSE {}
        not_following == (Range(regular_users) \ {user}) \ following
        tweet == Call("create_tweet", user, None)
        read == Call("paginate_timeline", user, None)
    IN IF not_following = {} THEN {<<tweet, read>>}
       ELSE {<<tweet, Call("follow_user", user, target), read>> : target \in not_following}

\* phase 8: two rounds over the regular users
phase_mixed_activity ==
    /\ PhaseDone(7)
    /\ LET r == Len(regular_users)
           user(k) == regular_users[((k - 1) % r) + 1]
           scripts == UNION {MixedScripts(regular_users[i]) : i \in 1..r}
       IN \E pick \in {f \in [1..(MixedRounds * r) -> scripts] :
                         \A k \in 1..(MixedRounds * r) : f[k] \in MixedScripts(user(k))} :
            tasks' = tasks \o [k \in 1..(MixedRounds * r) |-> NewTask(8, pick[k])]
    /\ phase_no' = 8
    /\ waiters' = waiters \o Arrivals
    /\ UNCHANGED <<norm, config, RICH_AVAILABLE, semaphore, metrics, users, queue, run_pc,
                   outcome, exit_status, server, completed>>

\* asyncio.gather re-raises the exception of a coroutine; run has no handler
GatherRaises ==
    /\ run_pc = "phase"
    /\ \E n \in TasksOf(phase_no) : tasks[n].pc = "raised"
    /\ run_pc' = "crashed"
    /\ outcome' = Raised("phase")
    /\ UNCHANGED <<norm, config, RICH_AVAILABLE, semaphore, waiters, metrics, users, tasks, queue,
                   phase_no, server, completed, exit_status>>

\* return self.print_results()
PrintResults ==
    /\ PhaseDone(8)
    /\ outcome' = print_results(metrics, config, RICH_AVAILABLE)
    /\ run_pc' = IF outcome'.raised THEN "crashed" ELSE "returned"
    /\ UNCHANGED <<norm, config, RICH_AVAILABLE, semaphore, waiters, metrics, users, tasks, queue,
                   phase_no, server, completed, exit_status>>

SysExitZero ==
    /\ run_pc \in {"returned", "aborted", "crashed"}
    /\ exit_status = <<>>
    /\ exit_status' = <<IF run_pc = "crashed" THEN 1 ELSE 0>>
    /\ UNCHANGED <<norm, config, RICH_AVAILABLE, semaphore, waiters, metrics, users, tasks, queue,
                   run_pc, phase_no, outcome, server, completed>>

\* main: sys.exit(0 if passed else 1) once run has returned; an exception that
\* run let through ends the interpreter with status 1
SysExit ==
    /\ run_pc \in {"returned", "aborted", "crashed"}
    /\ exit_status = <<>>
    /\ exit_status' = <<IF run_pc # "crashed" /\ outcome.passed THEN 0 ELSE 1>>
    /\ UNCHANGED <<norm, config, RICH_AVAILABLE, semaphore, waiters, metrics, users, tasks, queue,
                   run_pc, phase_no, outcome, server, completed>>

Next ==
    \/ CheckHealth
    \/ phase_create_users
    \/ CreateNextUser
    \/ phase_build_celebrity_followers
    \/ phase_build_social_graph
    \/ phase_create_tweets
    \/ SettleDelay
    \/ phase_read_timelines
    \/ phase_check_profiles
    \/ phase_unfollow_some
    \/ UnfollowNext
    \/ phase_mixed_activity
    \/ GatherRaises
    \/ PrintResults
    \/ SysExit
    \/ \E n \in 1..Len(tasks) : Acquire(n)
    \/ \E n \in 1..Len(tasks) : Complete(n)
    \/ \E n \in 1..Len(tasks) : Release(n)

Spec == Init /\ [][Next]_vars

\* ======================================================================
\* Properties
\* ======================================================================
Tasks == 1..Len(tasks)
Limit == config.max_concurrent_requests

\* transport calls started and not yet completed
InFlight == Cardinality({n \in Tasks : tasks[n].pc = "inflight"})
\* permits held: from the acquire to the exit of "async with self.semaphore"
Held == Cardinality({n \in Tasks : tasks[n].pc \in {"inflight", "recorded"}})

RECURSIVE SumField(_, _)
SumField(ts, field) ==
    IF ts = <<>> THEN 0 ELSE Head(ts)[field] + SumField(Tail(ts), field)

TaskKey(t) == <<Endpoint(CallOf(t)).method, EndpointKey(Endpoint(CallOf(t)))>>
Failed(list) == {r \in DOMAIN list : ~r.success}
RunEnded == run_pc \in {"returned", "crashed"}

\* C1: in every reachable state the number of transport calls in flight is at
\* most the configured max_concurrent_requests, however many units a phase
\* has submitted at once.
C1_ConcurrencyCeiling == InFlight <= Limit

\* a burst larger than the ceiling: the ceiling is reached while others wait
C1_Witness ==
    /\ InFlight = Limit
    /\ \E n \in Tasks : tasks[n].pc = "waiting"

\* C2: while a unit of phases 1-3 is in flight or has not started, the phase
\* tag is "setup" and the runtime list is empty; once the tag is "runtime",
\* every setup unit is done and its outcome is in the setup list.
SetupUnits == {n \in Tasks : tasks[n].phase <= 3}
SetupPending ==
    \/ phase_no < 3
    \/ phase_no = 3 /\ queue # <<>>
    \/ \E n \in SetupUnits : tasks[n].pc # "done"

C2_SetupBarrier ==
    /\ SetupPending =>
          metrics.phase = "setup" /\ metrics.runtime_requests = EmptyBag
    /\ metrics.phase = "runtime" =>
          /\ \A n \in SetupUnits : tasks[n].pc = "done" /\ tasks[n].records = 1
          /\ BagCardinality(metrics.setup_requests) = Cardinality(SetupUnits)

C2_Witness ==
    /\ metrics.phase = "runtime"
    /\ Cardinality(SetupUnits) >= 3
    /\ metrics.runtime_requests # EmptyBag

\* C3: for every i in 1..7, when a unit of a later phase has issued a request,
\* every unit of phase i has finished and all its outcomes are recorded, and
\* no unit of phase i is still to be started.
Finished(t) == t.pc = "done" /\ t.attempts = t.calls /\ t.records = t.calls

C3_StrictPhaseOrder ==
    \A b \in Tasks :
        tasks[b].attempts > 0 =>
            /\ \A a \in Tasks : tasks[a].phase < tasks[b].phase => Finished(tasks[a])
            /\ phase_no >= tasks[b].phase

C3_Witness ==
    /\ \E b \in Tasks : tasks[b].phase = 8 /\ tasks[b].pc = "inflight"
    /\ \A i \in 3..7 : \E a \in Tasks : tasks[a].phase = i

\* C4: every api_call makes exactly one transport attempt and records exactly
\* one outcome, whatever the result (accepted status, unexpected status,
\* timeout, exception): per coroutine the attempts and the recorded outcomes
\* follow the calls one for one, and the collector holds exactly one entry
\* per completed call.
C4_OneAttemptOneOutcome ==
    /\ \A n \in Tasks :
         LET t == tasks[n]
         IN CASE t.pc = "waiting" -> t.attempts = t.calls - 1 /\ t.records = t.calls - 1
              [] t.pc = "inflight" -> t.attempts = t.calls /\ t.records = t.calls - 1
              [] OTHER -> t.attempts = t.calls /\ t.records = t.calls
    /\ BagCardinality(metrics.requests) = SumField(tasks, "records")

\* a call that timed out has been recorded, and the coroutine has gone on
C4_Witness ==
    /\ \E r \in DOMAIN metrics.requests : r.status = 0 /\ r.error = ""
    /\ \E n \in Tasks : tasks[n].calls >= 2 /\ tasks[n].pc = "done"

\* C5: a permit is given back only by a call whose outcome is recorded, every
\* call gives its permit back whatever its result, and whenever a phase has
\* completed all the permits are free.
C5_Accounting ==
    /\ semaphore + Held = Limit
    /\ (\A n \in Tasks : Settled(tasks[n])) => semaphore = Limit

C5_ReleaseAfterRecord ==
    [][semaphore' > semaphore =>
          \E n \in Tasks : /\ tasks[n].pc = "recorded"
                           /\ tasks[n].records = tasks[n].attempts
                           /\ tasks'[n].pc # "recorded"]_vars

C5_PermitReleased == []C5_Accounting /\ C5_ReleaseAfterRecord

\* a phase has completed after a call of it failed, and every permit is free
C5_Witness ==
    /\ PhaseDone(phase_no)
    /\ \E n \in TasksOf(phase_no) : TRUE
    /\ Failed(metrics.requests) # {}
    /\ semaphore = Limit

\* C6: a timeout, a transport exception or an unexpected status never
\* interrupts the scenario: the api_call that failed returns to its caller,
\* which goes on (to its next call or to its end) while run stays where it
\* is; run ends only after phase 8, or because a coroutine raised, and while
\* it is in a phase either a coroutine can take a step or the phase is over.
C6_FailedCallReturns ==
    [][\A n \in Tasks :
          (tasks[n].pc = "recorded" /\ ~tasks[n].res.success /\ tasks'[n] # tasks[n])
             => tasks'[n].pc \in {"waiting", "done"} /\ run_pc' = run_pc]_vars

C6_RunGoesOn ==
    /\ (RunEnded /\ ~\E n \in Tasks : tasks[n].pc = "raised")
          => phase_no = 8 /\ queue = <<>> /\ \A n \in Tasks : tasks[n].pc = "done"
    /\ run_pc = "phase" =>
          \/ \E n \in Tasks : tasks[n].pc \in {"inflight", "recorded"}
          \/ waiters # <<>> /\ semaphore > 0 /\ tasks[Head(waiters)].pc = "waiting"
          \/ queue # <<>> /\ \A n \in TasksOf(phase_no) : tasks[n].pc = "done"
          \/ PhaseDone(phase_no)
          \/ \E n \in TasksOf(phase_no) : tasks[n].pc = "raised"

C6_FailuresAbsorbed == []C6_RunGoesOn /\ C6_FailedCallReturns

\* a request of the setup failed and the run still returned its verdict
C6_Witness ==
    /\ run_pc = "returned"
    /\ Failed(metrics.setup_requests) # {}

\* C7: no recording is lost: each bucket's total is the number of api_call
\* completions for its key, whatever the interleaving and the mix of
\* successes and failures, and with every completion the global list and
\* the list of the active phase grow by exactly one entry each.
Completions == BagCardinality(completed)
Active(m) == IF m.phase = "setup" THEN m.setup_requests ELSE m.runtime_requests
Inactive(m) == IF m.phase = "setup" THEN m.runtime_requests ELSE m.setup_requests

C7_BucketTotals ==
    /\ DOMAIN metrics.by_endpoint = DOMAIN completed
    /\ \A key \in DOMAIN completed : metrics.by_endpoint[key].total = completed[key]
    /\ BagCardinality(metrics.requests) = Completions

C7_ListsGrow ==
    [][LET k == Completions' - Completions
       IN /\ BagCardinality(metrics'.requests) = BagCardinality(metrics.requests) + k
          /\ BagCardinality(IF metrics.phase = "setup" THEN metrics'.setup_requests
                            ELSE metrics'.runtime_requests)
               = BagCardinality(Active(metrics)) + k
          /\ (IF metrics.phase = "setup" THEN metrics'.runtime_requests
              ELSE metrics'.setup_requests) = Inactive(metrics)]_vars

C7_NoLostUpdate == []C7_BucketTotals /\ C7_ListsGrow

\* two calls of one bucket have completed side by side, one failed, one not
C7_Witness ==
    \E a, b \in Tasks :
        /\ tasks[a].pc = "recorded" /\ tasks[b].pc = "recorded"
        /\ TaskKey(tasks[a]) = TaskKey(tasks[b])
        /\ tasks[a].res.success /\ ~tasks[b].res.success
        /\ metrics.by_endpoint[TaskKey(tasks[a])].total >= 2

\* C8: for every bucket key, after every record call, total = success + failed.
C8_TotalIsSuccessPlusFailed ==
    \A key \in DOMAIN metrics.by_endpoint :
        LET stats == metrics.by_endpoint[key]
        IN stats.total = stats.success + stats.failed

C8_Witness ==
    \E key \in DOMAIN metrics.by_endpoint :
        LET stats == metrics.by_endpoint[key]
        IN stats.success >= 1 /\ stats.failed >= 1 /\ "unknown" \in DOMAIN stats.errors

\* C9 (as claimed): the verdict run returns is passed exactly when the runtime
\* error rate is <= max_error_rate_percent and the runtime p95 is
\* < max_p95_latency_ms, with rich and without.
RuntimeList == ListOf(metrics.runtime_requests)
RuntimeFailed == Len(RuntimeList) - CountSuccess(RuntimeList)
ErrorRateWithin ==
    RuntimeFailed * 100 <= config.max_error_rate_percent * Len(RuntimeList)
P95Within == get_phase_stats(metrics, "runtime").p95 < config.max_p95_latency_ms

C9_VerdictByThresholds ==
    run_pc = "returned" => (outcome.passed <=> (ErrorRateWithin /\ P95Within))

\* C10 (as claimed): a failed verdict lists one reason for every violated
\* sub-condition, the error rate first, and none for a satisfied one; a
\* passed verdict lists none.
ExpectedReasons ==
    (IF ErrorRateWithin THEN <<>> ELSE <<"error_rate">>)
    \o (IF P95Within THEN <<>> ELSE <<"p95">>)

C10_ReasonPerViolation ==
    run_pc = "returned" =>
        [i \in 1..Len(outcome.reasons) |-> outcome.reasons[i].what]
            = (IF outcome.passed THEN <<>> ELSE ExpectedReasons)

\* C11: the verdict depends only on the runtime outcomes: with the runtime list
\* and the thresholds of a finished run, every other non-empty setup history
\* (all requests failed, slow ones, more or fewer of them) gives the same
\* verdict as the one the run returned.
SlowLatency == 9
OtherOutcome(ok, ms) ==
    RequestMetrics(<<"api", "v1", "tweets">>, "POST", IF ok THEN 201 ELSE 500, ms, ok,
                   IF ok THEN None ELSE "HTTP 500")
OtherOutcomes == {OtherOutcome(ok, ms) : ok \in BOOLEAN, ms \in {1, SlowLatency}}
SetupHistories ==
    {SetToBag({a}) (+) SetToBag({b}) : a, b \in OtherOutcomes}
    \cup {SetToBag({a}) : a \in OtherOutcomes}

C11_VerdictReadsRuntimeOnly ==
    run_pc = "returned" =>
        \A setup \in SetupHistories :
            LET other == print_results([metrics EXCEPT !.setup_requests = setup],
                                       config, RICH_AVAILABLE)
            IN ~other.raised /\ other.passed = outcome.passed

\* a run whose setup had a failed request passed on its runtime outcomes
C11_Witness ==
    /\ run_pc = "returned"
    /\ RICH_AVAILABLE
    /\ Failed(metrics.setup_requests) # {}
    /\ outcome.passed

\* C12 (as claimed): a run that passed the health check and finished phase 8
\* without a coroutine raising always returns a verdict: computing it never
\* raises, whatever the outcome history, the empty lists included.
C12_AlwaysVerdict ==
    (RunEnded /\ phase_no = 8 /\ \A n \in Tasks : tasks[n].pc = "done")
        => run_pc = "returned" /\ ~outcome.raised

\* C13: when the health check fails the run aborts before any phase: no
\* request went through api_call, the collector is as constructed, run
\* returned False, and nothing but the exit of the process follows (no phase
\* starts, no verdict is computed).
C13_AbortedBeforeAnyPhase ==
    run_pc = "aborted" =>
        /\ phase_no = 0
        /\ tasks = <<>> /\ waiters = <<>> /\ semaphore = Limit
        /\ metrics = NewMetrics
        /\ completed = <<>>
        /\ outcome = Returned(FALSE, <<>>)

C13_NothingAfterAbort ==
    [][run_pc = "aborted" =>
          /\ run_pc' = "aborted"
          /\ <<metrics, tasks, phase_no, outcome>>' = <<metrics, tasks, phase_no, outcome>>]_vars

C13_HealthAbort == []C13_AbortedBeforeAnyPhase /\ C13_NothingAfterAbort

C13_Witness == run_pc = "aborted" /\ exit_status # <<>>

\* C14: the process exits with status 0 exactly when run returned a passed
\* verdict, and with a non-zero status when the verdict is failed or the
\* health check aborted the run.
C14_ExitStatus ==
    exit_status # <<>> =>
        /\ exit_status = <<0>> <=> (run_pc = "returned" /\ outcome.passed)
        /\ (run_pc = "aborted" \/ (run_pc = "returned" /\ ~outcome.passed))
              => exit_status[1] # 0

C14_Witness == exit_status = <<0>> /\ run_pc = "returned" /\ outcome.passed

\* C15: the pagination protocol.  The first request of paginate_* carries no
\* cursor; every later request follows a successful page with a non-empty
\* nextCursor and carries exactly that cursor; the helper returns after an
\* unsuccessful response, a response with no payload or a page with an empty
\* or absent cursor, having issued k + 1 requests for k non-empty cursors.
HasCursor(resp) ==
    /\ resp.exc = None /\ resp.status = 200
    /\ resp.data.kind = "page" /\ resp.data.nextCursor \notin {None, ""}
Cursors(got) == Cardinality({i \in 1..Len(got) : HasCursor(got[i])})
Op(t) == t.script[t.ip].op
HelperReturns(n) ==
    /\ tasks[n].pc = "recorded" /\ IsPaginated(Op(tasks[n]))
    /\ tasks'[n].pc = "done" \/ tasks'[n].ip > tasks[n].ip

C15_Requests ==
    \A n \in Tasks :
        LET t == tasks[n]
        IN /\ Len(t.got) = Len(t.sent) - (IF t.pc = "inflight" THEN 1 ELSE 0)
           /\ t.sent # <<>> => t.sent[1] = None
           /\ \A i \in 2..Len(t.sent) :
                 HasCursor(t.got[i - 1]) /\ t.sent[i] = t.got[i - 1].data.nextCursor

C15_Returns ==
    [][\A n \in Tasks :
          HelperReturns(n) =>
              /\ Len(tasks[n].sent) = Cursors(tasks[n].got) + 1
              /\ tasks'[n].pages = Len(tasks[n].sent)]_vars

C15_PaginationProtocol == []C15_Requests /\ C15_Returns

\* cursors a, b, "": three requests, the last page has been received
C15_Witness ==
    \E n \in Tasks :
        /\ tasks[n].pc = "recorded"
        /\ tasks[n].sent = <<None, CursorStr[1], CursorStr[2]>>
        /\ tasks[n].got[3].data = LastPage

\* C16 (as claimed): a successful response whose payload is malformed or lacks
\* the continuation field ends pagination normally: no coroutine raises and
\* the run is not ended by a phase.
C16_AnomalyEndsPagination ==
    /\ \A n \in Tasks : tasks[n].pc # "raised"
    /\ run_pc = "crashed" => outcome.where # "phase"

\* C17: an outcome is recorded as succeeded exactly when the transport returned
\* a status of the operation's acceptable set (create tweet {201}, follow
\* {201, 409}, unfollow {200, 204, 404}, reads {200}); every other completed
\* call and every timeout or transport exception is recorded as failed.
Acceptable(op) ==
    CASE op = "create_tweet" -> {201}
      [] op = "follow_user" -> {201, 409}
      [] op = "unfollow_user" -> {200, 204, 404}
      [] op \in {"paginate_timeline", "paginate_tweets", "get_followers", "get_following"}
           -> {200}

C17_SuccessIffAccepted ==
    [][\A n \in Tasks :
          (tasks[n].pc = "inflight" /\ tasks'[n].pc = "recorded") =>
              LET resp == tasks'[n].got[Len(tasks'[n].got)]
                  ok == resp.exc = None /\ resp.status \in Acceptable(Op(tasks[n]))
                  new == metrics'.requests (-) metrics.requests
              IN /\ BagCardinality(new) = 1
                 /\ \A m \in DOMAIN new :
                       /\ m.success = ok
                       /\ m.status = (IF resp.exc = None THEN resp.status ELSE 0)
                 /\ tasks'[n].res.success = ok]_vars

\* an unfollow answered 404 was recorded as succeeded, and the run went on
C17_Witness ==
    /\ \E m \in DOMAIN metrics.requests : m.method = "DELETE" /\ m.status = 404 /\ m.success
    /\ run_pc = "returned"

\* C18: every recorded outcome is in exactly one of the two phase lists, and
\* the phase tag is monotonic: once the tag is "runtime" or an outcome is in
\* the runtime list, the tag stays "runtime" and the setup list is frozen.
C18_OneListEach ==
    /\ metrics.requests = metrics.setup_requests (+) metrics.runtime_requests
    /\ metrics.phase = "setup" => metrics.runtime_requests = EmptyBag

C18_TagMonotonic ==
    [][(metrics.phase = "runtime" \/ metrics.runtime_requests # EmptyBag) =>
          /\ metrics'.phase = "runtime"
          /\ metrics'.setup_requests = metrics.setup_requests]_vars

C18_PhaseLists == []C18_OneListEach /\ C18_TagMonotonic

C18_Witness ==
    /\ phase_no = 8
    /\ metrics.setup_requests # EmptyBag
    /\ Failed(metrics.runtime_requests) # {}

\* C19 (as claimed): every phase is a full fan-out: once a unit of the phase
\* has been submitted to the dispatcher, no unit of the phase is still to be
\* submitted (the runner waits only after submitting them all).
C19_FullFanOut ==
    (run_pc = "phase" /\ TasksOf(phase_no) # {}) => queue = <<>>

\* C20 (as claimed): the settle delay lies at the setup-to-runtime boundary:
\* while run pauses, no unit of phase 4 has been dispatched and no
\* runtime-tagged outcome exists, and no call is in flight.
C20_SettleAtBoundary ==
    run_pc = "sleep" =>
        /\ \A n \in Tasks : tasks[n].phase <= 3 /\ tasks[n].pc = "done"
        /\ metrics.runtime_requests = EmptyBag

\* ---------------------------------------------------------------------------
\* C21: the latency recorded for a call spans only the transport call: the
\* metric api_call records carries the time the transport took, and the time
\* the call waited for a permit is no part of it.
C21_LatencyIsTransportTime ==
    [][\A n \in Tasks :
          (tasks[n].pc = "inflight" /\ tasks'[n].pc = "recorded") =>
              LET resp == tasks'[n].got[Len(tasks'[n].got)]
                  new == metrics'.requests (-) metrics.requests
              IN \A m \in DOMAIN new :
                    m.latency_ms = ElapsedInTransport(CallOf(tasks[n]), resp)]_vars

\* ---------------------------------------------------------------------------
\* the event loop runs every step that is ready: a transport call ends (with a
\* response, or with the exception of its 30 s deadline), a released permit
\* wakes the next waiter, and run goes on when a phase's gather returns
FairSpec == Init /\ [][Next]_vars /\ WF_vars(Next)

\* C22: under fair scheduling, with a transport that gives every call its
\* nominal answer, a run that has begun its phases completes them and returns
\* the verdict of print_results.
C22_RunCompletes ==
    [](faults = 0) => ((run_pc = "phase") ~> (run_pc = "returned"))

\* ---------------------------------------------------------------------------
\* C23: with a transport that gives every call its accepted status and no
\* continuation cursor, a run with regular users only, one tweet per user and
\* no timeline reads records one runtime outcome per regular user (10 for 10
\* users) and returns a verdict over a runtime phase without failures.
C23_RuntimeOutcomesAreTweets ==
    (/\ run_pc = "returned"
     /\ faults = 0
     /\ config.regular > 0 /\ config.celebrities = 0
     /\ config.timeline_reads_per_user = 0)
        => /\ BagCardinality(metrics.runtime_requests)
                = config.regular * config.tweets_per_user
           /\ \A m \in DOMAIN metrics.runtime_requests : m.success

\* ---------------------------------------------------------------------------
\* api_call's normalisation of its endpoint argument, taken alone (lines
\* 229-236): the endpoint is any text of up to MaxSegments segments, each a
\* word, a UUID (canonical or urn form) or a UUID's text followed by a letter
Segments ==
    {<<"users">>, <<"tweets">>, <<UUIDStr[1]>>, <<UUIDStr[2]>>,
     <<UUIDStr[1], "x">>, <<"urn:uuid:", UUIDStr[1]>>}

Endpoints ==
    {Join(segments) : segments \in UNION {[1..n -> Segments] : n \in 1..MaxSegments}}

\* a LoadTester that is constructed and whose run is never started
Unstarted ==
    /\ config = CHOOSE cfg \in Configs :
                    /\ cfg.regular = 0 /\ cfg.celebrities = 0
                    /\ cfg.timeline_reads_per_user = 0
                    /\ cfg.max_concurrent_requests = 1
    /\ RICH_AVAILABLE = FALSE
    /\ semaphore = config.max_concurrent_requests
    /\ waiters = <<>>
    /\ regular_users = <<>>
    /\ celebrities = <<>>
    /\ celebrity_followers = <<>>
    /\ all_users = <<>>
    /\ follow_graph = <<>>
    /\ tasks = <<>>
    /\ queue = <<>>
    /\ run_pc = "health"
    /\ phase_no = 0
    /\ outcome = NoOutcome
    /\ faults = 0
    /\ completed = <<>>
    /\ exit_status = <<>>

NormInit ==
    /\ Unstarted
    /\ metrics = NewMetrics
    /\ norm_pc = "arg"
    /\ norm_endpoint \in Endpoints
    /\ norm_key = <<>>

\* endpoint_key as api_call computes it from its argument
NormalizeEndpoint ==
    /\ norm_pc = "arg"
    /\ norm_key' = Normalize(norm_endpoint)
    /\ norm_pc' = "key"
    /\ UNCHANGED <<config, RICH_AVAILABLE, semaphore, waiters, metrics, users, tasks,
                   queue, run_pc, phase_no, outcome, server, completed, exit_status,
                   norm_endpoint>>

\* a key that differs from its endpoint is given to api_call as an endpoint
NormalizeKey ==
    /\ norm_pc = "key"
    /\ norm_key # norm_endpoint
    /\ norm_endpoint' = norm_key
    /\ norm_key' = <<>>
    /\ norm_pc' = "arg"
    /\ UNCHANGED <<config, RICH_AVAILABLE, semaphore, waiters, metrics, users, tasks,
                   queue, run_pc, phase_no, outcome, server, completed, exit_status>>

NormNext == NormalizeEndpoint \/ NormalizeKey

NormSpec == NormInit /\ [][NormNext]_vars

\* the parts of the claim that hold of every endpoint
NormIdempotent == norm_pc = "key" => Normalize(norm_key) = norm_key

NormCollapses ==
    norm_pc = "key" =>
        \A u \in UUIDs :
            norm_endpoint = Join(<<<<"users">>, <<u>>, <<"tweets">>>>)
                => norm_key = Join(<<<<"users">>, <<"{id}">>, <<"tweets">>>>)

NormKeepsOtherSegments ==
    norm_pc = "key" =>
        LET segments == Split(norm_endpoint)
            key == Split(norm_key)
        IN /\ Len(key) = Len(segments)
           /\ \A i \in 1..Len(segments) : ~IsUUID(segments[i]) => key[i] = segments[i]

Recordable ==
    UNION {{MetricOf(call, resp) : resp \in {Nominal(call.op)} \cup Faulty(call)} :
             call \in {[op |-> op, user |-> UUIDStr[1], target |-> None,
                        cursor |-> None, waited |-> w] :
                          op \in {"create_tweet", "get_followers"}, w \in BOOLEAN}}

CollectorInit ==
    /\ Unstarted
    /\ metrics = NewMetrics
    /\ norm_pc = "idle"
    /\ norm_endpoint = <<>>
    /\ norm_key = <<>>

CollectorRecord ==
    /\ BagCardinality(metrics.requests) < MaxRecords
    /\ \E metric \in Recordable : metrics' = record(metrics, metric)
    /\ UNCHANGED <<norm, config, RICH_AVAILABLE, semaphore, waiters, users, tasks,
                   queue, run_pc, phase_no, outcome, server, completed, exit_status>>

CollectorSetPhase ==
    /\ metrics.phase = "setup"
    /\ metrics' = set_phase(metrics, "runtime")
    /\ UNCHANGED <<norm, config, RICH_AVAILABLE, semaphore, waiters, users, tasks,
                   queue, run_pc, phase_no, outcome, server, completed, exit_status>>

CollectorNext == CollectorRecord \/ CollectorSetPhase

CollectorSpec == CollectorInit /\ [][CollectorNext]_vars

\* the three places that report percentiles, each with the latencies it reads:
\* every bucket, every phase with an outcome, and the whole run
Reports ==
    {[p50 |-> p50(metrics.by_endpoint[key]),
      p95 |-> p95(metrics.by_endpoint[key]),
      p99 |-> p99(metrics.by_endpoint[key]),
      sorted_lat |-> sorted(ListOf(metrics.by_endpoint[key].latencies)),
      of |-> "bucket"] : key \in DOMAIN metrics.by_endpoint}
    \cup
    {[p50 |-> Fraction(get_phase_stats(metrics, phase).p50, 1),
      p95 |-> get_phase_stats(metrics, phase).p95,
      p99 |-> get_phase_stats(metrics, phase).p99,
      sorted_lat |-> sorted(Latencies(ListOf(IF phase = "setup" THEN metrics.setup_requests
                                             ELSE metrics.runtime_requests))),
      of |-> "phase"] :
        phase \in {ph \in {"setup", "runtime"} :
                     (IF ph = "setup" THEN metrics.setup_requests
                      ELSE metrics.runtime_requests) # EmptyBag}}
    \cup
    (IF metrics.requests = EmptyBag THEN {}
     ELSE {[p50 |-> overall_p50(metrics),
            p95 |-> overall_p95(metrics),
            p99 |-> overall_p99(metrics),
            sorted_lat |-> sorted(all_latencies(metrics)),
            of |-> "overall"]})

C26_OneQuantileConvention ==
    \A r \in Reports :
        LET n == Len(r.sorted_lat)
        IN /\ r.p50.num = Clamped(r.sorted_lat, n \div 2) * r.p50.den
           /\ r.p95 = Clamped(r.sorted_lat, Int95(n))
           /\ r.p99 = Clamped(r.sorted_lat, Int99(n))

\* ---------------------------------------------------------------------------
\* C27: a call answered with an unexpected status adds one to its bucket's
\* failure reason named by that status; a call that ended with an exception
\* (a deadline included) adds one to the reason named by the exception's
\* message, or "unknown" when the message is empty, which is never the text
\* of a status; an accepted answer leaves the reasons as they were.
C27_FailureReasons ==
    [][\A n \in Tasks :
          (tasks[n].pc = "inflight" /\ tasks'[n].pc = "recorded") =>
              LET resp == tasks'[n].got[Len(tasks'[n].got)]
                  key == TaskKey(tasks[n])
                  before == IF key \in DOMAIN metrics.by_endpoint
                            THEN metrics.by_endpoint[key].errors ELSE <<>>
                  after == metrics'.by_endpoint[key].errors
                  message == IF resp.exc = "" THEN "unknown" ELSE resp.exc
              IN IF resp.exc # None
                 THEN /\ after = Bump(before, message)
                      /\ message \notin {StatusStr(st) : st \in StatusesOf(Op(tasks[n]))}
                 ELSE IF resp.status \in Acceptable(Op(tasks[n]))
                      THEN after = before
                      ELSE after = Bump(before, StatusStr(resp.status))]_vars

\* a bucket whose one failure is filed under the message of its exception
C27_Witness ==
    \E key \in DOMAIN metrics.by_endpoint :
        /\ metrics.by_endpoint[key].errors = ("Connection refused" :> 1)
        /\ \E m \in DOMAIN metrics.requests :
              BucketKey(m) = key /\ m.status = 0 /\ m.error = "Connection refused"

\* ---------------------------------------------------------------------------
\* the coroutines of phase i, in creation order
PhaseTasks(i) == SelectSeq(tasks, LAMBDA t : t.phase = i)

\* C28: with a progress display, the advances a phase reports are as many as
\* the outcomes its units recorded, the units that paginate included.
C28_AdvancePerOutcome ==
    \A i \in 1..8 :
        (RICH_AVAILABLE /\ PhaseDone(i)) =>
            SumField(PhaseTasks(i), "advances") = SumField(PhaseTasks(i), "records")

\* ---------------------------------------------------------------------------
\* the sum over the buckets of one of the counters total, success, failed
BucketSum(field) ==
    LET counted == {key \in DOMAIN metrics.by_endpoint : metrics.by_endpoint[key][field] > 0}
    IN BagCardinality([key \in counted |-> metrics.by_endpoint[key][field]])

\* C29: the outcomes in the global list are as many as those of the setup
\* list and the runtime list together, and as many as the totals of the
\* buckets together; the successes and the failures of the global list are the
\* sums of the buckets' successes and failures.
C29_CountConservation ==
    /\ total_requests(metrics) = BagCardinality(metrics.setup_requests)
                                    + BagCardinality(metrics.runtime_requests)
    /\ total_requests(metrics) = BucketSum("total")
    /\ total_success(metrics) = BucketSum("success")
    /\ total_failed(metrics) = BucketSum("failed")

\* two buckets, outcomes of both phases, successes and a failure, and one
\* outcome recorded twice
C29_Witness ==
    /\ Cardinality(DOMAIN metrics.by_endpoint) = 2
    /\ metrics.setup_requests # EmptyBag /\ metrics.runtime_requests # EmptyBag
    /\ total_failed(metrics) = 1
    /\ \E r \in DOMAIN metrics.requests : r.success /\ metrics.requests[r] = 2

\* ---------------------------------------------------------------------------
\* in every bucket the counts of the failure reasons add up to the bucket's
\* failed counter ...
C30_ReasonsSumToFailed ==
    \A key \in DOMAIN metrics.by_endpoint :
        BagCardinality(metrics.by_endpoint[key].errors) = metrics.by_endpoint[key].failed

\* ... and recording a successful outcome leaves the failure reasons of every
\* bucket as they were.
C30_SuccessKeepsReasons ==
    [][\A metric \in DOMAIN (metrics'.requests (-) metrics.requests) :
          metric.success =>
              \A key \in DOMAIN metrics'.by_endpoint :
                  metrics'.by_endpoint[key].errors
                      = IF key \in DOMAIN metrics.by_endpoint
                        THEN metrics.by_endpoint[key].errors ELSE <<>>]_vars

\* C30: per bucket, the counts of the failure reasons sum to the number of
\* failed outcomes, and a successful outcome leaves the reasons unchanged.
C30_FailureReasonSum == []C30_ReasonsSumToFailed /\ C30_SuccessKeepsReasons

\* a bucket with a success and two failures filed under two reasons
C30_Witness ==
    \E key \in DOMAIN metrics.by_endpoint :
        LET stats == metrics.by_endpoint[key]
        IN /\ stats.success = 1 /\ stats.failed = 2
           /\ Cardinality(DOMAIN stats.errors) = 2

\* ---------------------------------------------------------------------------
\* the path of a call with every segment that is a UUID replaced by {id}, and
\* nothing of its query
PathKey(endpoint) ==
    [i \in 1..Len(endpoint.path) |->
        IF endpoint.path[i] \in UUIDs THEN "{id}" ELSE endpoint.path[i]]

FollowKey == <<"api", "v1", "users", "{id}", "follow", "{id}">>

\* C31: the outcome of a call is recorded in the bucket named by the call's
\* method and its path without the query and with {id} for UUID segments:
\* a later page of a listing (a request with a cursor) goes to the bucket its
\* first page went to, the method is part of the key (POST follow and DELETE
\* follow are two buckets), and the step changes no other bucket.
C31_BucketKey ==
    [][\A n \in Tasks :
          (tasks[n].pc = "inflight" /\ tasks'[n].pc = "recorded") =>
              LET call == CallOf(tasks[n])
                  key == <<Endpoint(call).method, PathKey(Endpoint(call))>>
                  new == metrics'.requests (-) metrics.requests
                  before == IF key \in DOMAIN metrics.by_endpoint
                            THEN metrics.by_endpoint[key].total ELSE 0
              IN /\ \A m \in DOMAIN new : BucketKey(m) = key
                 /\ DOMAIN metrics'.by_endpoint = DOMAIN metrics.by_endpoint \cup {key}
                 /\ metrics'.by_endpoint[key].total = before + 1
                 /\ \A other \in DOMAIN metrics.by_endpoint \ {key} :
                       metrics'.by_endpoint[other] = metrics.by_endpoint[other]
                 /\ call.cursor # None => before >= 1
                 /\ call.op = "follow_user" => key = <<"POST", FollowKey>>
                 /\ call.op = "unfollow_user" => key = <<"DELETE", FollowKey>>]_vars

\* a listing has been read over two pages into one bucket, and POST follow and
\* DELETE follow have each their bucket
C31_Witness ==
    /\ \E n \in Tasks : tasks[n].pages >= 2
    /\ {<<"POST", FollowKey>>, <<"DELETE", FollowKey>>} \subseteq DOMAIN metrics.by_endpoint
    /\ \E key \in DOMAIN metrics.by_endpoint :
          key[1] = "GET" /\ metrics.by_endpoint[key].total >= 2

====
